---- MODULE Spec2Model ----
(***************************************************************************)
(* Model of src/server.js: a WebSocket relay between "senders" (producers   *)
(* of screenshots) and "browser clients" (consumers that send code).        *)
(*                                                                          *)
(* Every callback of the event loop (a message handler, a timer callback,   *)
(* the close handler, an interval) runs to completion and is one action.    *)
(* Wall-clock time is counted in ticks of MsPerTick milliseconds; events    *)
(* happen at tick instants.  The sub-second timers (800 ms, 200 ms, 50 ms)  *)
(* are far shorter than a tick: they fire in any order the timer durations  *)
(* allow, and all of them before the clock reaches the next tick.           *)
(***************************************************************************)
EXTENDS Integers, Sequences, FiniteSets, TLC

(* ------------------------------ bounds --------------------------------- *)
\* Connections that may ever be opened (connection handles are 1..MaxConns).
MaxConns == 3
\* Messages of each type handled in a run of Spec.
MaxShots == 1
MaxCodes == 2
MaxRegs == 1
\* Runs of SpecPair: fewer connections, more messages of each type.
PairConns == 2
PairShots == 2
PairCodes == 2
PairRegs == 2
\* Runs of SpecFillCodes: the messages of each type handled after the prefix
\* that fills the command buffer to one below MAX_BUFFER_SIZE.
FillConns == 2
FillShots == 1
FillCodes == 2
FillRegs == 1
\* Runs of SpecFillShots: the same after the prefix that fills the screenshot
\* buffer.
ShotsConns == 2
ShotsShots == 2
ShotsCodes == 1
\* Runs of SpecFillBoth: the same after the prefix that fills both buffers.
BothConns == 2
BothShots == 2
BothCodes == 2
\* Runs of SpecEvents.
EventsConns == 2
EventsShots == 1
EventsCodes == 1
EventsRegs == 1
\* Runs of SpecTimers: every timer of the program, up to TimersSweeps sweeps of
\* the buffers.
TimersConns == 2
TimersShots == 1
TimersCodes == 1
TimersRegs == 1
TimersSweeps == 1
\* Runs of SpecFair.
FairConns == 2
FairShots == 1
FairCodes == 1
FairRegs == 1
\* Runs of SpecTTL: enough ticks for an entry to outlive MESSAGE_TTL_MS.
TTLConns == 2
TTLShots == 1
TTLCodes == 1
TTLRegs == 1
TTLBusy == 2
\* Runs of SpecAlive.  The count of keepalive sweeps a connection has seen
\* stops at MaxSweeps.
MaxSweeps == 2
AliveConns == 2
AliveShots == 1
AliveCodes == 1
AliveRegs == 1

(* --------------------------- program constants ------------------------- *)
MAX_BUFFER_SIZE == 100
MsPerTick == 5 * 60 * 1000
MESSAGE_TTL_MS == (3 * 60 * 60 * 1000) \div MsPerTick
CLEAN_INTERVAL_MS == (10 * 60 * 1000) \div MsPerTick

Conns == 1..MaxConns
\* senders.get(ws) of a connection that is no key of the map.
NoId == 0
\* A message field that is absent; a forwarded message that was never buffered
\* carries no timestamp.
None == 0
NoTs == -1

VARIABLES
  conn,             \* per connection: "none" (never opened), "open" (readyState 1),
                    \* "closing" (readyState 2/3, 'close' not yet emitted), "closed"
  isAlive,          \* ws.isAlive
  isBrowser,        \* ws._isBrowser
  registerTimer,    \* the connection's registerTimer is armed and has not fired
  senders,          \* the senders map: connection -> id, NoId when not a key
  browserClients,   \* the browserClients set
  screenshotBuffer, \* sequence of [data, senderId, timestamp]
  codeBuffer,       \* sequence of [data, timestamp]
  flushes,          \* the pending paced flushes, in the order they were scheduled
  now,              \* Date.now(), in ticks
  sweepDue,         \* the cleanExpiredBuffers interval is due at this tick
  nextId,           \* the next fresh sender id
  nShots, nCodes, nRegs,  \* messages handled so far, by type
  \* ---- history (observations of the run, read by no action) ----
  ev,               \* the callback that ran last: [kind, ws, data, issued]
  out,              \* what the last callback sent: sequence of [to, type, data, senderId, ts, ids]
  notes,            \* the role notifications the last callback broadcast: [type, id]
  owner,            \* owner[id]: the connection id was issued to
  connNotes,        \* connNotes[id]: sender_connected broadcasts made for id
  discNotes,        \* discNotes[id]: sender_disconnected broadcasts made for id
  sentRegister,     \* connections that have sent register_browser
  run,              \* [valid, seq]: the payloads buffered since the buffer was last empty
  lastFlush,        \* the paced flush whose trailing clear just ran, NoFlush otherwise
  origin,           \* origin[d]: the connection that sent code command d
  probes            \* per connection: [sweeps, outstanding, acked, missed, killed]

vars == <<conn, isAlive, isBrowser, registerTimer, senders, browserClients,
          screenshotBuffer, codeBuffer, flushes, now, sweepDue, nextId,
          nShots, nCodes, nRegs, ev, out, notes, owner, connNotes, discNotes,
          sentRegister, run, lastFlush, origin, probes>>

(* ------------------------------ helpers -------------------------------- *)
Min(a, b) == IF a < b THEN a ELSE b

RECURSIVE SetToSeq(_)
SetToSeq(S) ==
  IF S = {} THEN <<>>
  ELSE LET m == CHOOSE x \in S : \A y \in S : x <= y
       IN <<m>> \o SetToSeq(S \ {m})

Event(kind, ws, data, issued) ==
  [kind |-> kind, ws |-> ws, data |-> data, issued |-> issued, frame |-> ""]

\* The message callback ran on a frame that reached none of its three branches.
FrameEvent(ws, frame) ==
  [kind |-> "frame", ws |-> ws, data |-> None, issued |-> NoId, frame |-> frame]

Msg(to, type, data, senderId, ts, ids) ==
  [to |-> to, type |-> type, data |-> data, senderId |-> senderId,
   ts |-> ts, ids |-> ids]

Note(type, id) == [type |-> type, id |-> id]

NoFlush == [ws |-> None, regSnap |-> <<>>, got |-> <<>>, open |-> FALSE]

\* The keepalive history of a connection no sweep has visited: sweeps counts the
\* sweeps that visited it, outstanding says a ping is unanswered, acked that a
\* pong ever came, missed that a sweep found a ping unanswered, killed that a
\* sweep called terminate() on it.
NoProbes ==
  [sweeps |-> 0, outstanding |-> FALSE, acked |-> FALSE, missed |-> FALSE,
   killed |-> FALSE]

\* ws.readyState === 1
IsOpen(c) == conn[c] = "open"

\* ws.send(...) guarded by readyState === 1: the message, or nothing.
SendIfOpen(m) == IF IsOpen(m.to) THEN <<m>> ELSE <<>>

\* broadcastToBrowsers(payload): one send to every open member of clients.
BroadcastToBrowsers(clients, type, data, senderId) ==
  LET open == SetToSeq({c \in clients : IsOpen(c)})
  IN [i \in 1..Len(open) |-> Msg(open[i], type, data, senderId, NoTs, {})]

\* BufferPush with the eviction forgotten: the buffer grows past its capacity.
BufferPushNoShift(buf, e) == Append(buf, e)

\* BufferPush with the eviction one entry late: > in place of >=.
BufferPushLate(buf, e) ==
  IF Len(buf) > MAX_BUFFER_SIZE THEN Append(Tail(buf), e) ELSE Append(buf, e)

\* if (buf.length >= MAX_BUFFER_SIZE) buf.shift(); buf.push(e)
BufferPush(buf, e) ==
  IF Len(buf) >= MAX_BUFFER_SIZE THEN Append(Tail(buf), e) ELSE Append(buf, e)

\* The filter's test: now - msg.timestamp < MESSAGE_TTL_MS
IsFresh(msg, t) == t - msg.timestamp < MESSAGE_TTL_MS

\* buf.filter(msg => t - msg.timestamp < MESSAGE_TTL_MS)
Unexpired(buf, t) == SelectSeq(buf, LAMBDA msg : IsFresh(msg, t))

SendersSize == Cardinality({c \in Conns : senders[c] # NoId})

\* The registerTimer callback registering nothing.
TimerNeverRegisters(ws) == FALSE

\* The registerTimer callback's test: !ws._isBrowser && !senders.has(ws)
TimerShouldRegister(ws) == ~isBrowser[ws] /\ senders[ws] = NoId

\* The screenshot branch assigning an identity on every payload.
ScreenshotAlwaysRegisters(ws) == TRUE

\* The screenshot branch's test: !senders.has(ws)
ScreenshotShouldRegister(ws) == senders[ws] = NoId

(* -------------------------------- Init --------------------------------- *)
Init ==
  /\ conn = [c \in Conns |-> "none"]
  /\ isAlive = [c \in Conns |-> FALSE]
  /\ isBrowser = [c \in Conns |-> FALSE]
  /\ registerTimer = [c \in Conns |-> FALSE]
  /\ senders = [c \in Conns |-> NoId]
  /\ browserClients = {}
  /\ screenshotBuffer = <<>>
  /\ codeBuffer = <<>>
  /\ flushes = <<>>
  /\ now = 0
  /\ sweepDue = FALSE
  /\ nextId = 1
  /\ nShots = 0
  /\ nCodes = 0
  /\ nRegs = 0
  /\ ev = Event("init", None, None, NoId)
  /\ out = <<>>
  /\ notes = <<>>
  /\ owner = <<>>
  /\ connNotes = <<>>
  /\ discNotes = <<>>
  /\ sentRegister = {}
  /\ run = [valid |-> TRUE, seq |-> <<>>]
  /\ lastFlush = NoFlush
  /\ origin = <<>>
  /\ probes = [c \in Conns |-> NoProbes]

(* ------------------------------ history -------------------------------- *)
CountNotes(ns, type, id) ==
  Cardinality({i \in 1..Len(ns) : ns[i].type = type /\ ns[i].id = id})

\* What a callback leaves in the history variables: the event, its sends, its
\* role notifications, the per-id notification counts, the flush it completed
\* and the keepalive history.
History(e, o, ns, ids, fl, pr) ==
  /\ lastFlush' = fl
  /\ probes' = pr
  /\ origin' = IF e.kind = "code" THEN Append(origin, e.ws) ELSE origin
  /\ ev' = e
  /\ out' = o
  /\ notes' = ns
  /\ connNotes' = [i \in 1..ids |->
        (IF i <= Len(connNotes) THEN connNotes[i] ELSE 0)
          + CountNotes(ns, "sender_connected", i)]
  /\ discNotes' = [i \in 1..ids |->
        (IF i <= Len(discNotes) THEN discNotes[i] ELSE 0)
          + CountNotes(ns, "sender_disconnected", i)]

ObserveFlush(e, o, ns, ids, fl) == History(e, o, ns, ids, fl, probes)

Observe(e, o, ns, ids) == ObserveFlush(e, o, ns, ids, NoFlush)

ObserveProbes(e, o, pr) == History(e, o, <<>>, nextId - 1, NoFlush, pr)

(* ------------------------------ actions -------------------------------- *)
\* wss.on('connection'): handles are taken in order, a closed one is not reused.
Connect(ws, maxConns) ==
  /\ ws <= maxConns
  /\ conn[ws] = "none"
  /\ \A c \in Conns : c < ws => conn[c] # "none"
  /\ conn' = [conn EXCEPT ![ws] = "open"]
  /\ isAlive' = [isAlive EXCEPT ![ws] = TRUE]
  /\ isBrowser' = [isBrowser EXCEPT ![ws] = FALSE]
  /\ registerTimer' = [registerTimer EXCEPT ![ws] = TRUE]
  /\ Observe(Event("connect", ws, None, NoId), <<>>, <<>>, nextId - 1)
  /\ UNCHANGED <<senders, browserClients, screenshotBuffer, codeBuffer, flushes,
                 now, sweepDue, nextId, nShots, nCodes, nRegs, owner,
                 sentRegister, run>>

\* The flush of the command buffer to a newly registered sender: every entry, in
\* order, each send guarded by ws.readyState === 1.
CodeFlush(ws) ==
  IF IsOpen(ws)
  THEN [i \in 1..Len(codeBuffer) |->
          Msg(ws, "code", codeBuffer[i].data, None, codeBuffer[i].timestamp, {})]
  ELSE <<>>

\* The registerTimer callback (setTimeout 800 ms).
RegisterTimerFire(ws) ==
  /\ registerTimer[ws]
  /\ registerTimer' = [registerTimer EXCEPT ![ws] = FALSE]
  /\ IF TimerShouldRegister(ws)
     THEN /\ senders' = [senders EXCEPT ![ws] = nextId]
          /\ nextId' = nextId + 1
          /\ owner' = Append(owner, ws)
          /\ codeBuffer' = <<>>
          /\ Observe(Event("registerTimer", ws, None, nextId),
                     BroadcastToBrowsers(browserClients, "sender_connected", None, nextId)
                       \o CodeFlush(ws),
                     <<Note("sender_connected", nextId)>>, nextId)
     ELSE /\ UNCHANGED <<senders, nextId, owner, codeBuffer>>
          /\ Observe(Event("registerTimer", ws, None, NoId), <<>>, <<>>, nextId - 1)
  /\ UNCHANGED <<conn, isAlive, isBrowser, browserClients, screenshotBuffer,
                 flushes, now, sweepDue, nShots, nCodes, nRegs, sentRegister,
                 run>>

\* ws.on('message'), data.type === 'screenshot'.  The payload is the ordinal of
\* the screenshot message, so that payloads are told apart.
OnScreenshot(ws, maxShots) ==
  /\ IsOpen(ws)
  /\ nShots < maxShots
  /\ LET d == nShots + 1
         fresh == ScreenshotShouldRegister(ws)
         id == IF fresh THEN nextId ELSE senders[ws]
         announce == IF fresh
                     THEN BroadcastToBrowsers(browserClients, "sender_connected", None, id)
                     ELSE <<>>
         live == browserClients # {}
     IN /\ nShots' = d
        /\ senders' = [senders EXCEPT ![ws] = id]
        /\ nextId' = IF fresh THEN nextId + 1 ELSE nextId
        /\ owner' = IF fresh THEN Append(owner, ws) ELSE owner
        /\ IF live
           THEN /\ UNCHANGED <<screenshotBuffer, run>>
                /\ Observe(Event("screenshot", ws, d, IF fresh THEN id ELSE NoId),
                           announce \o BroadcastToBrowsers(browserClients, "screenshot", d, id),
                           IF fresh THEN <<Note("sender_connected", id)>> ELSE <<>>,
                           nextId' - 1)
           ELSE /\ screenshotBuffer' =
                     BufferPush(screenshotBuffer,
                                [data |-> d, senderId |-> id, timestamp |-> now])
                /\ run' = [run EXCEPT !.seq = Append(@, d)]
                /\ Observe(Event("screenshot", ws, d, IF fresh THEN id ELSE NoId),
                           announce,
                           IF fresh THEN <<Note("sender_connected", id)>> ELSE <<>>,
                           nextId' - 1)
  /\ UNCHANGED <<conn, isAlive, isBrowser, registerTimer, browserClients, codeBuffer,
                 flushes, now, sweepDue, nCodes, nRegs, sentRegister>>

\* CodeTargets without the s !== ws test: the command echoes to its origin.
CodeTargetsWithOrigin(ws) == {s \in Conns : senders[s] # NoId /\ IsOpen(s)}

\* The reply to a command that found no sender, sent to every open connection
\* instead of the origin alone.
NoSendersReplyToAll(ws) ==
  LET open == SetToSeq({c \in Conns : IsOpen(c)})
  IN [i \in 1..Len(open) |-> Msg(open[i], "no_senders", None, None, NoTs, {})]

\* ws.send({type: 'no_senders'}) guarded by ws.readyState === 1.
NoSendersReply(ws) == SendIfOpen(Msg(ws, "no_senders", None, None, NoTs, {}))

\* The fanout of a command: senders.forEach, s !== ws && s.readyState === 1.
CodeTargets(ws) == {s \in Conns : senders[s] # NoId /\ s # ws /\ IsOpen(s)}

\* ws.on('message'), data.type === 'code'.
OnCode(ws, maxCodes) ==
  /\ IsOpen(ws)
  /\ nCodes < maxCodes
  /\ LET d == nCodes + 1
         to == SetToSeq(CodeTargets(ws))
     IN /\ nCodes' = d
        /\ IF SendersSize > 0
           THEN /\ UNCHANGED codeBuffer
                /\ Observe(Event("code", ws, d, NoId),
                           [i \in 1..Len(to) |-> Msg(to[i], "code", d, None, NoTs, {})],
                           <<>>, nextId - 1)
           ELSE /\ codeBuffer' = BufferPush(codeBuffer, [data |-> d, timestamp |-> now])
                /\ Observe(Event("code", ws, d, NoId), NoSendersReply(ws),
                           <<>>, nextId - 1)
  /\ UNCHANGED <<conn, isAlive, isBrowser, registerTimer, senders, browserClients,
                 screenshotBuffer, flushes, now, sweepDue, nextId, nShots, nRegs,
                 owner, sentRegister, run>>

\* A paced flush as register_browser schedules it: the 200 ms settle timer.
NewFlush(ws) ==
  [ws |-> ws, phase |-> "settle", toSend |-> <<>>, idx |-> 0,
   regSnap |-> screenshotBuffer, got |-> <<>>]

\* MarkBrowser skipped: neither the flag is set nor the timer cancelled.
MarkBrowserSkipped(ws) ==
  [isBrowser |-> isBrowser, registerTimer |-> registerTimer]

\* ws._isBrowser = true; clearTimeout(ws._registerTimer)
MarkBrowser(ws) ==
  [isBrowser |-> [isBrowser EXCEPT ![ws] = TRUE],
   registerTimer |-> [registerTimer EXCEPT ![ws] = FALSE]]

\* RevertSender with senders.delete(ws) forgotten.
RevertSenderKept(ws) == senders

\* if (senders.has(ws)) senders.delete(ws)
RevertSender(ws) == [senders EXCEPT ![ws] = NoId]

\* ws.on('message'), data.type === 'register_browser'.
OnRegisterBrowser(ws, maxRegs) ==
  /\ IsOpen(ws)
  /\ nRegs < maxRegs
  /\ LET wasSender == senders[ws] # NoId
         clients == browserClients \cup {ws}
         left == RevertSender(ws)
         current == {left[c] : c \in {x \in Conns : left[x] # NoId}}
     IN /\ nRegs' = nRegs + 1
        /\ isBrowser' = MarkBrowser(ws).isBrowser
        /\ registerTimer' = MarkBrowser(ws).registerTimer
        /\ browserClients' = clients
        /\ senders' = left
        /\ sentRegister' = sentRegister \cup {ws}
        /\ flushes' = IF IsOpen(ws) /\ Len(screenshotBuffer) > 0
                      THEN Append(flushes, NewFlush(ws))
                      ELSE flushes
        /\ Observe(Event("register_browser", ws, None, NoId),
                   (IF wasSender
                    THEN BroadcastToBrowsers(clients, "sender_disconnected", None, senders[ws])
                    ELSE <<>>)
                     \o SendIfOpen(Msg(ws, "current_senders", None, None, NoTs, current)),
                   IF wasSender THEN <<Note("sender_disconnected", senders[ws])>> ELSE <<>>,
                   nextId - 1)
  /\ UNCHANGED <<conn, isAlive, screenshotBuffer, codeBuffer, now, sweepDue, nextId,
                 nShots, nCodes, owner, run>>

\* The settle timer of a paced flush (setTimeout 200 ms): snapshot the buffer and
\* schedule one send per entry and the trailing clear.  Timers of one duration
\* fire in the order they were set.
FlushSettle(i) ==
  /\ i \in 1..Len(flushes)
  /\ flushes[i].phase = "settle"
  /\ \A j \in 1..(i - 1) : flushes[j].phase # "settle"
  /\ flushes' = [flushes EXCEPT ![i] =
                   [@ EXCEPT !.phase = "send", !.toSend = screenshotBuffer, !.idx = 1]]
  /\ Observe(Event("flushSettle", flushes[i].ws, None, NoId), <<>>, <<>>, nextId - 1)
  /\ UNCHANGED <<conn, isAlive, isBrowser, registerTimer, senders, browserClients,
                 screenshotBuffer, codeBuffer, now, sweepDue, nextId, nShots, nCodes,
                 nRegs, owner, sentRegister, run>>

\* One staggered send of a paced flush (setTimeout index * 50 ms).
FlushSend(i) ==
  /\ i \in 1..Len(flushes)
  /\ flushes[i].phase = "send"
  /\ flushes[i].idx <= Len(flushes[i].toSend)
  /\ LET f == flushes[i]
         msg == f.toSend[f.idx]
         sent == SendIfOpen(Msg(f.ws, "screenshot", msg.data, msg.senderId,
                                msg.timestamp, {}))
     IN /\ flushes' = [flushes EXCEPT ![i] =
                         [@ EXCEPT !.idx = @ + 1,
                                   !.got = IF sent # <<>> THEN Append(@, msg) ELSE @]]
        /\ Observe(Event("flushSend", f.ws, msg.data, NoId), sent, <<>>, nextId - 1)
  /\ UNCHANGED <<conn, isAlive, isBrowser, registerTimer, senders, browserClients,
                 screenshotBuffer, codeBuffer, now, sweepDue, nextId, nShots, nCodes,
                 nRegs, owner, sentRegister, run>>

\* The trailing clear of a paced flush (setTimeout toSend.length * 50 + 100 ms).
FlushClear(i) ==
  /\ i \in 1..Len(flushes)
  /\ flushes[i].phase = "send"
  /\ flushes[i].idx > Len(flushes[i].toSend)
  /\ screenshotBuffer' = <<>>
  /\ flushes' = SubSeq(flushes, 1, i - 1) \o SubSeq(flushes, i + 1, Len(flushes))
  /\ run' = [valid |-> TRUE, seq |-> <<>>]
  /\ ObserveFlush(Event("flushClear", flushes[i].ws, None, NoId), <<>>, <<>>,
                  nextId - 1,
                  [ws |-> flushes[i].ws, regSnap |-> flushes[i].regSnap,
                   got |-> flushes[i].got, open |-> IsOpen(flushes[i].ws)])
  /\ UNCHANGED <<conn, isAlive, isBrowser, registerTimer, senders, browserClients,
                 codeBuffer, now, sweepDue, nextId, nShots, nCodes, nRegs, owner,
                 sentRegister>>

\* The peer closes, or the socket fails: readyState leaves OPEN; 'close' is
\* emitted later.
PeerClose(ws) ==
  /\ IsOpen(ws)
  /\ conn' = [conn EXCEPT ![ws] = "closing"]
  /\ Observe(Event("peerClose", ws, None, NoId), <<>>, <<>>, nextId - 1)
  /\ UNCHANGED <<isAlive, isBrowser, registerTimer, senders, browserClients,
                 screenshotBuffer, codeBuffer, flushes, now, sweepDue, nextId, nShots,
                 nCodes, nRegs, owner, sentRegister, run>>

\* The close handler with clearTimeout(ws._registerTimer) forgotten.
CancelTimerForgotten(ws) == registerTimer

\* if (ws._registerTimer) { clearTimeout(ws._registerTimer); ... }
CancelTimer(ws) == [registerTimer EXCEPT ![ws] = FALSE]

\* ws.on('close').
OnClose(ws) ==
  /\ conn[ws] = "closing"
  /\ conn' = [conn EXCEPT ![ws] = "closed"]
  /\ registerTimer' = CancelTimer(ws)
  /\ senders' = [senders EXCEPT ![ws] = NoId]
  /\ browserClients' = browserClients \ {ws}
  /\ IF senders[ws] # NoId
     THEN Observe(Event("close", ws, None, NoId),
                  BroadcastToBrowsers(browserClients, "sender_disconnected", None, senders[ws]),
                  <<Note("sender_disconnected", senders[ws])>>, nextId - 1)
     ELSE Observe(Event("close", ws, None, NoId), <<>>, <<>>, nextId - 1)
  /\ UNCHANGED <<isAlive, isBrowser, screenshotBuffer, codeBuffer, flushes, now,
                 sweepDue, nextId, nShots, nCodes, nRegs, owner, sentRegister, run>>

\* ws.on('error'): the handler logs and touches no state.  The socket that
\* raised the error is no longer OPEN; its 'close' is emitted later.
OnError(ws) ==
  /\ IsOpen(ws)
  /\ conn' = [conn EXCEPT ![ws] = "closing"]
  /\ Observe(Event("error", ws, None, NoId), <<>>, <<>>, nextId - 1)
  /\ UNCHANGED <<isAlive, isBrowser, registerTimer, senders, browserClients,
                 screenshotBuffer, codeBuffer, flushes, now, sweepDue, nextId, nShots,
                 nCodes, nRegs, owner, sentRegister, run>>

\* Inbound frames, by their text, that are none of the three messages: text
\* that is no JSON, JSON that is no object, an object without a type, and
\* objects of another type.
Frames ==
  {"not json", "null", "7", "{}", "{type: ping}", "{type: Screenshot}"}

\* JSON.parse(message) throws a SyntaxError.
ParseThrows(frame) == frame = "not json"

\* data.type, where it does not throw: undefined for a number and for an object
\* without the field.
DataType(frame) ==
  CASE frame = "{type: ping}" -> "ping"
    [] frame = "{type: Screenshot}" -> "Screenshot"
    [] OTHER -> "undefined"

\* The branch of the message callback a frame reaches: "catch" when JSON.parse
\* throws or data is null (data.type throws a TypeError), "none" when no
\* data.type === test matches.
Branch(frame) ==
  IF ParseThrows(frame) \/ frame = "null" THEN "catch"
  ELSE IF DataType(frame) \in {"screenshot", "code", "register_browser"}
       THEN DataType(frame)
       ELSE "none"

\* The catch block answering the connection with an error message.
ErrorReplySent(ws) == SendIfOpen(Msg(ws, "error", None, None, NoTs, {}))

\* catch(e) { console.error(...) }, and the end of the if / else if chain:
\* nothing is sent.
ErrorReply(ws) == <<>>

\* ws.on('message') on a frame that reaches none of the three branches.
OnIgnoredFrame(ws, frame) ==
  /\ IsOpen(ws)
  /\ Branch(frame) \in {"catch", "none"}
  /\ Observe(FrameEvent(ws, frame), ErrorReply(ws), <<>>, nextId - 1)
  /\ UNCHANGED <<conn, isAlive, isBrowser, registerTimer, senders, browserClients,
                 screenshotBuffer, codeBuffer, flushes, now, sweepDue, nextId, nShots,
                 nCodes, nRegs, owner, sentRegister, run>>

\* wss.clients: the connections whose 'close' has not been emitted.
Clients == {c \in Conns : conn[c] \in {"open", "closing"}}

\* The sweep's test with terminate() never called.
ShouldTerminateNever(ws) == FALSE

\* if (ws.isAlive === false) return ws.terminate()
ShouldTerminate(ws) == ~isAlive[ws]

\* The keepalive interval (30 s): terminate what did not answer the last ping,
\* mark and ping the rest.
KeepaliveSweep ==
  /\ Clients # {}
  /\ LET pinged == SetToSeq({c \in Clients : ~ShouldTerminate(c)})
     IN /\ conn' = [c \in Conns |->
                     IF c \in Clients /\ ShouldTerminate(c) /\ conn[c] = "open"
                     THEN "closing" ELSE conn[c]]
        /\ isAlive' = [c \in Conns |-> IF c \in Clients THEN FALSE ELSE isAlive[c]]
        /\ ObserveProbes(Event("keepalive", None, None, NoId),
                         [i \in 1..Len(pinged) |->
                            Msg(pinged[i], "ping", None, None, NoTs, {})],
                         [c \in Conns |->
                            IF c \in Clients
                            THEN [probes[c] EXCEPT
                                    !.sweeps = Min(@ + 1, MaxSweeps),
                                    !.missed = @ \/ probes[c].outstanding,
                                    !.outstanding = @ \/ ~ShouldTerminate(c),
                                    !.killed = @ \/ ShouldTerminate(c)]
                            ELSE probes[c]])
  /\ UNCHANGED <<isBrowser, registerTimer, senders, browserClients, screenshotBuffer,
                 codeBuffer, flushes, now, sweepDue, nextId, nShots, nCodes, nRegs,
                 owner, sentRegister, run>>

\* ws.on('pong', heartbeat): a pong frame arrives, answering a ping or unasked.
Pong(ws) ==
  /\ IsOpen(ws)
  /\ isAlive' = [isAlive EXCEPT ![ws] = TRUE]
  /\ ObserveProbes(Event("pong", ws, None, NoId), <<>>,
                   [probes EXCEPT ![ws].outstanding = FALSE, ![ws].acked = TRUE])
  /\ UNCHANGED <<conn, isBrowser, registerTimer, senders, browserClients,
                 screenshotBuffer, codeBuffer, flushes, now, sweepDue, nextId, nShots,
                 nCodes, nRegs, owner, sentRegister, run>>

\* The clock reaches the next tick, once every timer that is due has fired.
Tick(maxTime) ==
  /\ now < maxTime
  /\ ~sweepDue
  /\ flushes = <<>>
  /\ \A c \in Conns : ~registerTimer[c]
  /\ now' = now + 1
  /\ sweepDue' = ((now + 1) % CLEAN_INTERVAL_MS = 0)
  /\ Observe(Event("tick", None, None, NoId), <<>>, <<>>, nextId - 1)
  /\ UNCHANGED <<conn, isAlive, isBrowser, registerTimer, senders, browserClients,
                 screenshotBuffer, codeBuffer, flushes, nextId, nShots, nCodes, nRegs,
                 owner, sentRegister, run>>

\* cleanExpiredBuffers (setInterval 10 min).
CleanExpiredBuffers ==
  /\ sweepDue
  /\ sweepDue' = FALSE
  /\ screenshotBuffer' = Unexpired(screenshotBuffer, now)
  /\ codeBuffer' = Unexpired(codeBuffer, now)
  /\ run' = IF screenshotBuffer' = <<>> THEN [valid |-> TRUE, seq |-> <<>>]
            ELSE IF screenshotBuffer' = screenshotBuffer THEN run
            ELSE [valid |-> FALSE, seq |-> <<>>]
  /\ Observe(Event("sweep", None, None, NoId), <<>>, <<>>, nextId - 1)
  /\ UNCHANGED <<conn, isAlive, isBrowser, registerTimer, senders, browserClients,
                 flushes, now, nextId, nShots, nCodes, nRegs, owner, sentRegister>>

(* --------------------------- specifications ---------------------------- *)
\* The callbacks of a connection that does not register as a browser.
PeerHandlers(maxConns, maxShots, maxCodes) ==
  \/ \E ws \in Conns : Connect(ws, maxConns)
  \/ \E ws \in Conns : RegisterTimerFire(ws)
  \/ \E ws \in Conns : OnScreenshot(ws, maxShots)
  \/ \E ws \in Conns : OnCode(ws, maxCodes)
  \/ \E ws \in Conns : PeerClose(ws)
  \/ \E ws \in Conns : OnClose(ws)

\* register_browser and the timers of the paced flush it schedules.
BrowserHandlers(maxRegs) ==
  \/ \E ws \in Conns : OnRegisterBrowser(ws, maxRegs)
  \/ \E i \in 1..Len(flushes) : FlushSettle(i)
  \/ \E i \in 1..Len(flushes) : FlushSend(i)
  \/ \E i \in 1..Len(flushes) : FlushClear(i)

\* The callbacks of connections, messages and sub-second timers.
Handlers(maxConns, maxShots, maxCodes, maxRegs) ==
  \/ PeerHandlers(maxConns, maxShots, maxCodes)
  \/ BrowserHandlers(maxRegs)

\* The first tick of the server's life.  A terminate() by the keepalive interval
\* shows here as PeerClose: readyState leaves OPEN and 'close' follows.
Next == Handlers(MaxConns, MaxShots, MaxCodes, MaxRegs)

Spec == Init /\ [][Next]_vars

\* Two connections and more messages.
NextPair == Handlers(PairConns, PairShots, PairCodes, PairRegs)

SpecPair == Init /\ [][NextPair]_vars

\* Runs that fill a buffer begin with a prefix in which connection 1 opens and,
\* before its registerTimer fires, sends codes code commands (no sender is
\* registered: each is buffered and answered with no_senders) and then shots
\* screenshots (the first registers it as sender 1; no browser is registered:
\* each is buffered).  InitAfter(codes, shots) is the state after that prefix,
\* for codes >= 1 and shots = 0 or shots >= 2.
InitAfter(codes, shots) ==
  /\ conn = [c \in Conns |-> IF c = 1 THEN "open" ELSE "none"]
  /\ isAlive = [c \in Conns |-> c = 1]
  /\ isBrowser = [c \in Conns |-> FALSE]
  /\ registerTimer = [c \in Conns |-> c = 1]
  /\ senders = [c \in Conns |-> IF c = 1 /\ shots > 0 THEN 1 ELSE NoId]
  /\ browserClients = {}
  /\ screenshotBuffer =
       [i \in 1..shots |-> [data |-> i, senderId |-> 1, timestamp |-> 0]]
  /\ codeBuffer = [i \in 1..codes |-> [data |-> i, timestamp |-> 0]]
  /\ flushes = <<>>
  /\ now = 0
  /\ sweepDue = FALSE
  /\ nextId = IF shots > 0 THEN 2 ELSE 1
  /\ nShots = shots
  /\ nCodes = codes
  /\ nRegs = 0
  /\ ev = IF shots > 0 THEN Event("screenshot", 1, shots, NoId)
          ELSE Event("code", 1, codes, NoId)
  /\ out = IF shots > 0 THEN <<>>
           ELSE <<Msg(1, "no_senders", None, None, NoTs, {})>>
  /\ notes = <<>>
  /\ owner = IF shots > 0 THEN <<1>> ELSE <<>>
  /\ connNotes = IF shots > 0 THEN <<1>> ELSE <<>>
  /\ discNotes = IF shots > 0 THEN <<0>> ELSE <<>>
  /\ sentRegister = {}
  /\ run = [valid |-> TRUE, seq |-> [i \in 1..shots |-> i]]
  /\ lastFlush = NoFlush
  /\ origin = [i \in 1..codes |-> 1]
  /\ probes = [c \in Conns |-> NoProbes]

Prefill == MAX_BUFFER_SIZE - 1

\* The prefix itself.  Under SpecPrefix TLC finds PrefixSkipsCodes and
\* PrefixSkipsShots violated: the states InitAfter describes are reached from Init.
NextPrefix ==
  \/ Connect(1, 1)
  \/ nShots = 0 /\ OnCode(1, Prefill)
  \/ OnScreenshot(1, Prefill)

SpecPrefix == Init /\ [][NextPrefix]_vars

PrefixSkipsCodes == ~InitAfter(Prefill, 0)

PrefixSkipsShots == ~InitAfter(1, Prefill)

\* The command buffer one below MAX_BUFFER_SIZE, then a few messages more.
NextFillCodes == Handlers(FillConns, FillShots, Prefill + FillCodes, FillRegs)

SpecFillCodes == InitAfter(Prefill, 0) /\ [][NextFillCodes]_vars

\* The screenshot buffer one below MAX_BUFFER_SIZE, then a few messages more,
\* with no browser ever registered: every screenshot is buffered.
NextFillShots == PeerHandlers(ShotsConns, Prefill + ShotsShots, 1 + ShotsCodes)

SpecFillShots == InitAfter(1, Prefill) /\ [][NextFillShots]_vars

\* Both buffers one below MAX_BUFFER_SIZE, then a few messages more, with no
\* browser ever registered.
NextFillBoth == PeerHandlers(BothConns, Prefill + BothShots, Prefill + BothCodes)

SpecFillBoth == InitAfter(Prefill, Prefill) /\ [][NextFillBoth]_vars

PrefixSkipsBoth == ~InitAfter(Prefill, Prefill)

\* The callbacks of Next, the 'error' event of a connection and the frames the
\* message callback ignores.
NextEvents ==
  \/ Handlers(EventsConns, EventsShots, EventsCodes, EventsRegs)
  \/ \E ws \in Conns : OnError(ws)
  \/ \E ws \in Conns, frame \in Frames : OnIgnoredFrame(ws, frame)

SpecEvents == Init /\ [][NextEvents]_vars

\* Every timer of the program: the sub-second timers of Next, the keepalive
\* interval (any number of times between two ticks, no peer answering its
\* pings) and the sweep of the buffers.
NextTimers ==
  \/ Handlers(TimersConns, TimersShots, TimersCodes, TimersRegs)
  \/ KeepaliveSweep
  \/ Tick(TimersSweeps * CLEAN_INTERVAL_MS)
  \/ CleanExpiredBuffers

SpecTimers == Init /\ [][NextTimers]_vars

\* The callbacks of Next under the guarantee setTimeout gives: a registerTimer
\* that is armed fires, unless clearTimeout cancels it first.
NextFair == Handlers(FairConns, FairShots, FairCodes, FairRegs)

SpecFair ==
  /\ Init
  /\ [][NextFair]_vars
  /\ \A ws \in Conns : WF_vars(RegisterTimerFire(ws))

\* Few messages, and enough ticks for a buffered entry to pass MESSAGE_TTL_MS:
\* the peers act during the first TTLBusy ticks and again once MESSAGE_TTL_MS
\* has passed, and are silent in between.  The sweep that is due at a tick
\* runs at the tick, before the connections, messages and closes of that tick.
Busy == (now < TTLBusy \/ now >= MESSAGE_TTL_MS) /\ ~sweepDue

NextTTL ==
  \/ \E ws \in Conns : Busy /\ Connect(ws, TTLConns)
  \/ \E ws \in Conns : RegisterTimerFire(ws)
  \/ \E ws \in Conns : Busy /\ OnScreenshot(ws, TTLShots)
  \/ \E ws \in Conns : Busy /\ OnCode(ws, TTLCodes)
  \/ \E ws \in Conns : Busy /\ OnRegisterBrowser(ws, TTLRegs)
  \/ \E i \in 1..Len(flushes) : FlushSettle(i)
  \/ \E i \in 1..Len(flushes) : FlushSend(i)
  \/ \E i \in 1..Len(flushes) : FlushClear(i)
  \/ \E ws \in Conns : Busy /\ PeerClose(ws)
  \/ \E ws \in Conns : Busy /\ OnClose(ws)
  \/ Tick(MESSAGE_TTL_MS + TTLBusy)
  \/ CleanExpiredBuffers

SpecTTL == Init /\ [][NextTTL]_vars

\* The keepalive interval and the peers' pongs, with the clock held.
NextAlive ==
  \/ Handlers(AliveConns, AliveShots, AliveCodes, AliveRegs)
  \/ KeepaliveSweep
  \/ \E ws \in Conns : Pong(ws)

SpecAlive == Init /\ [][NextAlive]_vars

(* ------------------------------- claims -------------------------------- *)
InSenders(c) == senders[c] # NoId

\* C1: no connection is at the same time a key of the sender registry and a
\* member of the browser set.
C1_RegistriesDisjoint ==
  \A c \in Conns : ~(InSenders(c) /\ c \in browserClients)

\* C2: a connection in the browser set never acquires a SenderIdentity and never
\* leaves the browser set before it closes, and a Sender leaves the sender
\* registry only for the browser set or by closing.
C2_RoleTransitions ==
  [][\A c \in Conns :
       /\ (c \in browserClients /\ ~InSenders(c)) => senders'[c] = NoId
       /\ (c \in browserClients /\ conn'[c] # "closed") => c \in browserClients'
       /\ (InSenders(c) /\ senders'[c] = NoId)
            => (c \in browserClients' \/ conn'[c] = "closed")]_vars

\* C3: the payloads buffered since the screenshot buffer was last empty, with no
\* sweep or flush since, being run.seq, the buffer holds the most recent
\* min(count, MAX_BUFFER_SIZE) of them, in arrival order.
C3_BufferHoldsMostRecent ==
  run.valid =>
    LET n == Len(run.seq)
        k == Min(n, MAX_BUFFER_SIZE)
    IN /\ Len(screenshotBuffer) = k
       /\ \A i \in 1..k : screenshotBuffer[i].data = run.seq[n - k + i]

\* C3 witness: more payloads than the buffer holds have been buffered in a row.
C3_Witness ==
  /\ run.valid
  /\ Len(run.seq) > MAX_BUFFER_SIZE
  /\ ev.kind = "screenshot"
  /\ browserClients = {}

\* C4: when the trailing clear of a paced flush has run and the browser is still
\* open, the flush has sent it exactly the entries the buffer held when it
\* registered, in order and with their senderIds, and the buffer is empty.
C4_FlushDeliversSnapshot ==
  (lastFlush.ws # None /\ lastFlush.open) =>
    /\ lastFlush.got = lastFlush.regSnap
    /\ screenshotBuffer = <<>>

\* C5: no flush sends a buffered entry whose age is MESSAGE_TTL_MS or more.
C5_NoExpiredEntrySent ==
  \A i \in 1..Len(out) :
    out[i].ts # NoTs => now - out[i].ts < MESSAGE_TTL_MS

\* C6: the registerTimer callback never issues a SenderIdentity to a connection
\* that has sent register_browser.
C6_TimerSparesBrowsers ==
  (ev.kind = "registerTimer" /\ ev.issued # NoId) => ev.ws \notin sentRegister

\* C6 witness: a registerTimer callback issues an identity while a connection
\* that sent register_browser before its own timer could fire is still open.
C6_Witness ==
  /\ ev.kind = "registerTimer"
  /\ ev.issued # NoId
  /\ \E c \in sentRegister :
       /\ IsOpen(c)
       /\ \A id \in 1..Len(owner) : owner[id] # c

\* The entries a buffer holds after one more is stored, as C7 states it.
StoredInto(buf, e) ==
  IF Len(buf) = MAX_BUFFER_SIZE
  THEN SubSeq(buf, 2, MAX_BUFFER_SIZE) \o <<e>>
  ELSE buf \o <<e>>

\* C7: a code command handled while the sender registry is empty appends exactly
\* one entry to the command buffer, after evicting the oldest of a full buffer,
\* and sends one no_senders reply to the origin and nothing else.
C7_CodeBufferedWhenNoSenders ==
  [][(ev'.kind = "code" /\ SendersSize = 0) =>
       /\ codeBuffer' = StoredInto(codeBuffer, [data |-> ev'.data, timestamp |-> now])
       /\ Len(codeBuffer') <= MAX_BUFFER_SIZE
       /\ Len(out') = 1
       /\ out'[1].to = ev'.ws
       /\ out'[1].type = "no_senders"]_vars

\* C7 witness: a command has evicted the oldest entry of a full command buffer
\* while another connection was open.
C7_Witness ==
  /\ ev.kind = "code"
  /\ Len(out) = 1
  /\ out[1].type = "no_senders"
  /\ Len(codeBuffer) = MAX_BUFFER_SIZE
  /\ codeBuffer[1].data > 1
  /\ \E c \in Conns : c # ev.ws /\ IsOpen(c)

IssuedTo(c) == {id \in 1..Len(owner) : owner[id] = c}

\* C8 as stated: the close of a connection that was issued a SenderIdentity
\* broadcasts exactly one sender_disconnected, with an id issued to it.
C8_OneDisconnectAtClose ==
  (ev.kind = "close" /\ IssuedTo(ev.ws) # {}) =>
    /\ Len(notes) = 1
    /\ notes[1].type = "sender_disconnected"
    /\ notes[1].id \in IssuedTo(ev.ws)

\* C8 amended: every identity issued is announced once; sender_disconnected is
\* broadcast for it exactly once, when it is removed from the registry (by the
\* close handler, or by register_browser reverting it), never for an id that was
\* not announced and never twice; once its connection has closed the
\* notification has been made; a close broadcasts at most one, for an id of the
\* closing connection.
C8_OneDisconnectPerIdentity ==
  /\ Len(connNotes) = Len(owner)
  /\ Len(discNotes) = Len(owner)
  /\ \A id \in 1..Len(owner) :
       /\ connNotes[id] = 1
       /\ discNotes[id] = IF senders[owner[id]] = id THEN 0 ELSE 1
       /\ conn[owner[id]] = "closed" => discNotes[id] = 1
  /\ \A i \in 1..Len(notes) : notes[i].id \in 1..Len(owner)
  /\ ev.kind = "close" =>
       /\ Len(notes) <= 1
       /\ \A i \in 1..Len(notes) :
            notes[i].type = "sender_disconnected" /\ notes[i].id \in IssuedTo(ev.ws)

\* C8 witness: a connection closes after register_browser reverted its identity:
\* the close broadcasts nothing, the reversion did.
C8_Witness ==
  /\ ev.kind = "close"
  /\ notes = <<>>
  /\ \E id \in IssuedTo(ev.ws) : discNotes[id] = 1

\* The code messages among sends, as the data they carry, in order.
RECURSIVE CodesSentTo(_, _)
CodesSentTo(sends, c) ==
  IF sends = <<>> THEN <<>>
  ELSE (IF Head(sends).to = c /\ Head(sends).type = "code"
        THEN <<Head(sends).data>> ELSE <<>>) \o CodesSentTo(Tail(sends), c)

\* C9: an Unclassified connection (its registerTimer pending, no Browser) that
\* becomes a Sender by its first screenshot is announced with a fresh identity
\* and receives the whole command buffer in order, and the command buffer is
\* empty afterwards.
C9_ScreenshotPathFlushesCodes ==
  [][(/\ ev'.kind = "screenshot"
      /\ ev'.issued # NoId
      /\ registerTimer[ev'.ws]
      /\ ev'.ws \notin browserClients) =>
       /\ notes' = <<Note("sender_connected", ev'.issued)>>
       /\ ev'.issued = nextId
       /\ CodesSentTo(out', ev'.ws) = [i \in 1..Len(codeBuffer) |-> codeBuffer[i].data]
       /\ codeBuffer' = <<>>]_vars

\* C10: a code command handled while the sender registry is not empty is sent
\* once to every open Sender other than its origin and to no one else, leaves
\* the command buffer alone and is answered with no no_senders reply.
C10_CodeFannedOut ==
  [][(ev'.kind = "code" /\ SendersSize > 0) =>
       LET targets == {s \in Conns : InSenders(s) /\ s # ev'.ws /\ conn[s] = "open"}
       IN /\ {out'[i].to : i \in 1..Len(out')} = targets
          /\ Len(out') = Cardinality(targets)
          /\ \A i \in 1..Len(out') :
               out'[i].type = "code" /\ out'[i].data = ev'.data
          /\ codeBuffer' = codeBuffer]_vars

\* C10 witness: a Sender's command has reached another Sender while a third
\* connection, open and no Sender, received nothing.
C10_Witness ==
  /\ ev.kind = "code"
  /\ InSenders(ev.ws)
  /\ \E i \in 1..Len(out) : out[i].type = "code" /\ InSenders(out[i].to)
  /\ \E c \in Conns :
       /\ IsOpen(c)
       /\ ~InSenders(c)
       /\ \A i \in 1..Len(out) : out[i].to # c

\* C11: in every reachable state the screenshot buffer and the command buffer
\* each hold at most MAX_BUFFER_SIZE entries.
C11_BuffersBounded ==
  /\ Len(screenshotBuffer) <= MAX_BUFFER_SIZE
  /\ Len(codeBuffer) <= MAX_BUFFER_SIZE

\* C11 witness: both buffers are full and each has evicted its oldest entry.
C11_Witness ==
  /\ Len(screenshotBuffer) = MAX_BUFFER_SIZE
  /\ Len(codeBuffer) = MAX_BUFFER_SIZE
  /\ screenshotBuffer[1].data > 1
  /\ codeBuffer[1].data > 1

\* C12: an error event on a connection has the effect of a close on the engine
\* state: after it the connection's registerTimer is cancelled, the connection
\* is in neither the sender registry nor the browser set, and the removal of
\* its identity is broadcast as sender_disconnected.
C12_ErrorActsAsClose ==
  [][ev'.kind = "error" =>
       /\ ~registerTimer'[ev'.ws]
       /\ senders'[ev'.ws] = NoId
       /\ ev'.ws \notin browserClients'
       /\ InSenders(ev'.ws) =>
            notes' = <<Note("sender_disconnected", senders[ev'.ws])>>]_vars

\* C13: once the close handler of a connection has run, the connection is in
\* neither the sender registry nor the browser set and has no registerTimer
\* pending, whatever timers fire afterwards.
C13_ClosedStaysOut ==
  \A c \in Conns :
    conn[c] = "closed" =>
      /\ ~InSenders(c)
      /\ c \notin browserClients
      /\ ~registerTimer[c]

\* C13 witness: a staggered send of a paced flush fires for a browser whose
\* close handler has already run.
C13_Witness ==
  /\ ev.kind = "flushSend"
  /\ conn[ev.ws] = "closed"
  /\ ev.ws \in sentRegister

\* C14: for a connection that is already in the sender registry, a further
\* screenshot and the firing of its registerTimer leave its identity as it is,
\* issue no identity and broadcast no sender_connected, and the screenshot is
\* forwarded or buffered under that identity.
C14_SenderAssignmentIdempotent ==
  [][(ev'.kind \in {"screenshot", "registerTimer"} /\ InSenders(ev'.ws)) =>
       LET id == senders[ev'.ws]
       IN /\ senders'[ev'.ws] = id
          /\ ev'.issued = NoId
          /\ nextId' = nextId
          /\ notes' = <<>>
          /\ \A i \in 1..Len(out') :
               /\ out'[i].type = "screenshot"
               /\ out'[i].senderId = id
               /\ out'[i].data = ev'.data
          /\ (ev'.kind = "screenshot" /\ browserClients = {}) =>
               /\ screenshotBuffer' # <<>>
               /\ screenshotBuffer'[Len(screenshotBuffer')].senderId = id
               /\ screenshotBuffer'[Len(screenshotBuffer')].data = ev'.data
          /\ (ev'.kind = "screenshot" /\ browserClients # {}) =>
               /\ screenshotBuffer' = screenshotBuffer
               /\ {out'[i].to : i \in 1..Len(out')}
                    = {c \in browserClients : conn[c] = "open"}]_vars

\* C14 witness: a connection that became a Sender by its first screenshot (the
\* command buffered before is still there, so its registerTimer issued nothing
\* when it fired) has a second screenshot buffered under the same identity.
C14_Witness ==
  /\ ev.kind = "screenshot"
  /\ ev.issued = NoId
  /\ InSenders(ev.ws)
  /\ ~registerTimer[ev.ws]
  /\ ev.ws \notin sentRegister
  /\ codeBuffer # <<>>
  /\ Len(screenshotBuffer) = 2
  /\ screenshotBuffer[1].senderId = senders[ev.ws]
  /\ screenshotBuffer[2].senderId = senders[ev.ws]

\* The pings a step sent to connection c.
PingsTo(sends, c) ==
  Cardinality({i \in 1..Len(sends) : sends[i].type = "ping" /\ sends[i].to = c})

\* C15: at each keepalive sweep a connection whose last ping is unanswered is
\* terminated, and every other connection is marked not alive and pinged once;
\* so a connection that never sent a pong is terminated by the second sweep
\* that visits it, and a connection no sweep ever found with a ping unanswered
\* is never terminated by the sweep.
C15_KeepaliveSweeps ==
  [][/\ ev'.kind = "keepalive" =>
          \A c \in Clients :
            IF probes[c].outstanding
            THEN /\ conn'[c] # "open"
                 /\ probes'[c].killed
                 /\ PingsTo(out', c) = 0
            ELSE /\ conn'[c] = conn[c]
                 /\ ~isAlive'[c]
                 /\ PingsTo(out', c) = 1
                 /\ probes'[c].killed = probes[c].killed
     /\ \A c \in Conns :
          /\ (probes'[c].sweeps >= 2 /\ ~probes'[c].acked) =>
               (probes'[c].killed /\ conn'[c] # "open")
          /\ probes'[c].killed => probes'[c].missed]_vars

\* C15 witness: the second sweep terminates a connection that never answered
\* and spares one that answered the ping of the first.
C15_Witness ==
  /\ ev.kind = "keepalive"
  /\ \E c, d \in Conns :
       /\ probes[c].killed /\ ~probes[c].acked /\ probes[c].sweeps = 2
       /\ conn[c] = "closing"
       /\ IsOpen(d) /\ probes[d].acked /\ probes[d].sweeps = 2
       /\ ~probes[d].killed /\ ~probes[d].missed

\* C16: a frame that cannot be parsed, or whose type is none of screenshot,
\* code and register_browser, leaves the sender registry, the browser set, both
\* buffers and the connection's registerTimer as they were, sends nothing and
\* leaves the connection open.
C16_IgnoredFrameNoEffect ==
  [][(/\ ev'.frame \in Frames
      /\ \/ ParseThrows(ev'.frame)
         \/ ev'.frame = "null"
         \/ DataType(ev'.frame) \notin {"screenshot", "code", "register_browser"}) =>
       /\ UNCHANGED <<senders, browserClients, screenshotBuffer, codeBuffer,
                      registerTimer, flushes, isBrowser>>
       /\ out' = <<>>
       /\ notes' = <<>>
       /\ conn[ev'.ws] = "open"
       /\ conn' = conn]_vars

\* C16 witness: a frame of unknown type was ignored on a connection whose
\* registerTimer is pending, while a command and a screenshot are buffered.
C16_Witness ==
  /\ ev.kind = "frame"
  /\ ev.frame = "{type: Screenshot}"
  /\ registerTimer[ev.ws]
  /\ IsOpen(ev.ws)
  /\ codeBuffer # <<>>
  /\ screenshotBuffer # <<>>

\* C17: no connection is sent a code command it originated itself, by the
\* fanout or by the flush of the command buffer to a newly registered sender.
C17_NoCommandBackToOrigin ==
  \A i \in 1..Len(out) :
    out[i].type = "code" => origin[out[i].data] # out[i].to

\* The payloads a sequence of buffer entries holds.
Payloads(buf) == {buf[k].data : k \in 1..Len(buf)}

\* C18: the trailing clear of a paced flush removes only entries of the snapshot
\* that flush took: a payload buffered after the snapshot is still in the
\* buffer after the clear.
C18_ClearKeepsLaterPayloads ==
  [][ev'.kind = "flushClear" =>
       \A i \in 1..Len(flushes) :
         (/\ flushes[i].phase = "send"
          /\ flushes[i].idx > Len(flushes[i].toSend)
          /\ flushes[i].ws = ev'.ws
          /\ flushes' = SubSeq(flushes, 1, i - 1) \o SubSeq(flushes, i + 1, Len(flushes)))
           => Payloads(screenshotBuffer) \ Payloads(flushes[i].toSend)
                \subseteq Payloads(screenshotBuffer')]_vars

\* C19: every code command handled is, in the same step, sent to at least one
\* Sender or stored in the command buffer and answered with no_senders.
C19_CommandSentOrBuffered ==
  [][ev'.kind = "code" =>
       \/ \E i \in 1..Len(out') :
            /\ out'[i].type = "code"
            /\ out'[i].data = ev'.data
            /\ InSenders(out'[i].to)
       \/ /\ codeBuffer' = StoredInto(codeBuffer, [data |-> ev'.data, timestamp |-> now])
          /\ \E i \in 1..Len(out') :
               out'[i].type = "no_senders" /\ out'[i].to = ev'.ws]_vars

Classified(c) == InSenders(c) \/ c \in browserClients

\* C20: no connection that stays open remains Unclassified for ever: while
\* it is open, it comes to be in the sender registry or the browser set; and the
\* registerTimer of a connection that has sent neither register_browser nor a
\* screenshot puts it into the sender registry when it fires.
C20_EventuallyClassified ==
  /\ \A c \in Conns : IsOpen(c) ~> (Classified(c) \/ ~IsOpen(c))
  /\ [][\A c \in Conns :
          (/\ ev'.kind = "registerTimer"
           /\ ev'.ws = c
           /\ c \notin sentRegister
           /\ ~InSenders(c)) => (InSenders(c)' /\ ev'.issued = senders'[c])]_vars

\* C20 witness: the registerTimer of an open connection that sent neither
\* register_browser nor a screenshot has put it into the sender registry.
C20_Witness ==
  /\ ev.kind = "registerTimer"
  /\ ev.issued # NoId
  /\ IsOpen(ev.ws)
  /\ senders[ev.ws] = ev.issued
  /\ ev.ws \notin sentRegister
  /\ nShots = 0

====
